---- MODULE Spec2Model ----
(***************************************************************************)
(* Trip Recording Session Engine of TodayRoute (src/App.tsx).              *)
(*                                                                         *)
(* The React component App is modelled as a state machine.  Every useState *)
(* cell, every useRef cell and the two localStorage keys are variables;    *)
(* every event handler, timer callback and promise continuation is an      *)
(* action.                                                                 *)
(*                                                                         *)
(* Positions: all samples lie on one meridian, so a GeoPoint is its        *)
(* latitude in units of 1/Scale metre of arc plus its reported accuracy;   *)
(* lng is constant and t is never read by the engine.  Distances are in    *)
(* the same unit.                                                          *)
(*                                                                         *)
(* Rendering: a click handler always runs on a committed render (React     *)
(* flushes pending work before a discrete event), and what it sets is      *)
(* committed when it returns.  What a timer or geolocation callback sets   *)
(* is committed by a later step, RenderEffect; until then the snapshot     *)
(* interval armed by the previous render is still live with its closure.   *)
(***************************************************************************)
EXTENDS Integers, Sequences, FiniteSets, TLC

\* ------------------------------------------------------------ constants
AccLimit == 150
MinStepMeters == 1
TickPeriodSec == 1
SnapshotPeriodSec == 10
ArchiveCap == 50

\* ---------------------------------------------------------------- bounds
\* latitude units per metre
Scale == 2
\* largest latitude of a sample, in units
MaxLat == 3
\* longest point sequence a session records
MaxPoints == 3
\* sessions started by start() in one run
MaxSessions == 2
\* elapsed ticks modelled in the engine specification
MaxElapsed == 2
\* elapsed ticks modelled in the timer specification, beyond the snapshot period
ExtraTicks == 1
\* trips committed in one run
MaxTrips == 2
\* sessions started in the timer specification
TimedSessions == 1
\* sessions started in the commit specification
CommitSessions == 1
\* longest point sequence of a session in the engine specification
MaxEnginePoints == 2

VARIABLES
    trips, storedTrips,
    isTracking, isPrivate, gpsStatus, errorMessage,
    distanceMeters, elapsedSec, startedAt, startTimeLabel,
    activeTrip, isSaving, hasDraft, finishScreen,
    watchIdRef, timerRef, lastPointRef, pointsRef,
    draftStore,
    watches, timers,
    effect, snapAge, tickDue,
    finishTask, saveTask,
    geocodeCalls, lastAlert, now, idSeq,
    geolocation, sessionOrigin, lastSample, quietSec

vars == <<trips, storedTrips, isTracking, isPrivate, gpsStatus, errorMessage,
          distanceMeters, elapsedSec, startedAt, startTimeLabel,
          activeTrip, isSaving, hasDraft, finishScreen,
          watchIdRef, timerRef, lastPointRef, pointsRef, draftStore,
          watches, timers, effect, snapAge, tickDue,
          finishTask, saveTask, geocodeCalls, lastAlert, now, idSeq,
          geolocation, sessionOrigin, lastSample, quietSec>>

\* groups of variables, for UNCHANGED
archiveVars == <<trips, storedTrips, activeTrip, idSeq>>
sessionVars == <<distanceMeters, elapsedSec, startedAt, startTimeLabel>>
filterVars == <<distanceMeters, lastPointRef, pointsRef>>
handleVars == <<watchIdRef, timerRef, watches, timers>>
taskVars == <<finishTask, saveTask>>
worldVars == <<geocodeCalls, now, geolocation, sessionOrigin>>

\* ------------------------------------------------------------- values
\* null / undefined
Null == [null |-> TRUE]
\* a GeoPoint without a reported accuracy
AccAbsent == -1
\* no handle in a ref
NoHandle == 0
\* startedAt before the first session
NoDate == -1
\* a geocode lookup that has not returned yet
Pending == <<"(pending)">>
NoTask == [pc |-> "none"]
NoEffect == [isTracking |-> FALSE]

\* what pointsRef.current holds after it was assigned a missing field
Undefined == [undefined |-> TRUE]

\* texts of the draft key that are not a DraftTrip: one JSON.parse rejects,
\* the JSON value null, an object without fields
Unparseable == [text |-> "{oops"]
JsonNull == [text |-> "null"]
JsonEmptyObject == [text |-> "{}"]
MalformedDrafts == {Unparseable, JsonNull, JsonEmptyObject}

\* JSON.parse of the text of the draft key (it throws on Unparseable)
JSONparse(raw) == IF raw = JsonNull THEN Null ELSE raw

GeoPoint(lat, acc) == [lat |-> lat, acc |-> acc]

Min(a, b) == IF a < b THEN a ELSE b
Abs(x) == IF x < 0 THEN -x ELSE x
Last(s) == s[Len(s)]

\* utils/geo haversineMeters, on one meridian: the arc between the latitudes
haversineMeters(a, b) == Abs(a.lat - b.lat)

\* sum of the distances between consecutive points of a sequence
RECURSIVE PathLength(_)
PathLength(ps) ==
    IF Len(ps) < 2 THEN 0
    ELSE PathLength(SubSeq(ps, 1, Len(ps) - 1))
         + haversineMeters(ps[Len(ps) - 1], ps[Len(ps)])

\* Date.toLocaleTimeString: the hour:minute label of a Date
formatTimeShort(d) == <<"hm", d>>
\* Date.toISOString and new Date(iso)
toISOString(d) == <<"iso", d>>
parseISO(s) == s[2]

\* the smallest handle the browser has not handed out among the live ones
FreshHandle(live) == CHOOSE h \in 1..(Cardinality(live) + 1) :
                        h \notin live /\ \A k \in 1..(h - 1) : k \in live

\* the dependency list of the snapshot effect, as of the current state
Deps == [isTracking |-> isTracking, elapsedSec |-> elapsedSec,
         distanceMeters |-> distanceMeters, startedAt |-> startedAt,
         startTimeLabel |-> startTimeLabel, isPrivate |-> isPrivate]

\* the last render is committed: the effect has run with the current state
Committed == effect = (IF isTracking THEN Deps ELSE NoEffect)

\* the render that ends a click handler: the effect is cleaned up and re-run
CommitRender ==
    /\ effect' = (IF isTracking' THEN Deps' ELSE NoEffect)
    /\ snapAge' = (IF effect' = effect THEN snapAge ELSE 0)

\* the main screen's controls can be clicked: no trip overlay covers them
MainScreen == activeTrip = Null /\ Committed

\* --------------------------------------------------------------- Init
Init ==
    /\ trips = <<>> /\ storedTrips = <<>>
    /\ isTracking = FALSE /\ isPrivate = FALSE
    /\ gpsStatus = "Idle" /\ errorMessage = Null
    /\ distanceMeters = 0 /\ elapsedSec = 0
    /\ startedAt = NoDate /\ startTimeLabel = <<>>
    /\ activeTrip = Null /\ isSaving = FALSE
    /\ hasDraft = FALSE /\ finishScreen = Null
    /\ watchIdRef = NoHandle /\ timerRef = NoHandle
    /\ lastPointRef = Null /\ pointsRef = <<>>
    /\ draftStore = Null
    /\ watches = {} /\ timers = {}
    /\ effect = NoEffect /\ snapAge = 0 /\ tickDue = FALSE
    /\ finishTask = NoTask /\ saveTask = NoTask
    /\ geocodeCalls = 0 /\ lastAlert = "" /\ now = 0 /\ idSeq = 0
    /\ geolocation \in BOOLEAN
    /\ sessionOrigin = "none"
    /\ lastSample = Null /\ quietSec = 0

\* ------------------------------------------------------- Sample Filter
\* p.acc && p.acc > 150
IsWeak(p) == p.acc # AccAbsent /\ p.acc > AccLimit

IsNoise_LE(last, p) == last # Null /\ haversineMeters(last, p) <= MinStepMeters * Scale
\* last && haversineMeters(last, p) < 1
IsNoise(last, p) == last # Null /\ haversineMeters(last, p) < MinStepMeters * Scale

addPoint_AnchorMoves(p) ==
    IF IsWeak(p)
    THEN /\ gpsStatus' = "Weak"
         /\ lastPointRef' = p
         /\ UNCHANGED <<distanceMeters, pointsRef>>
    ELSE /\ gpsStatus' = "Good"
         /\ IF IsNoise(lastPointRef, p)
            THEN /\ lastPointRef' = p
                 /\ UNCHANGED <<distanceMeters, pointsRef>>
            ELSE /\ distanceMeters' =
                        (IF lastPointRef # Null
                         THEN distanceMeters + haversineMeters(lastPointRef, p)
                         ELSE distanceMeters)
                 /\ lastPointRef' = p
                 /\ pointsRef' = Append(pointsRef, p)

addPoint_Recount(p) ==
    IF IsWeak(p)
    THEN /\ gpsStatus' = "Weak"
         /\ UNCHANGED filterVars
    ELSE /\ gpsStatus' = "Good"
         /\ IF IsNoise(lastPointRef, p)
            THEN UNCHANGED filterVars
            ELSE /\ distanceMeters' =
                        (IF lastPointRef # Null
                         THEN haversineMeters(lastPointRef, p)
                         ELSE distanceMeters)
                 /\ lastPointRef' = p
                 /\ pointsRef' = Append(pointsRef, p)

addPoint(p) ==
    IF IsWeak(p)
    THEN /\ gpsStatus' = "Weak"
         /\ UNCHANGED filterVars
    ELSE /\ gpsStatus' = "Good"
         /\ IF IsNoise(lastPointRef, p)
            THEN UNCHANGED filterVars
            ELSE /\ distanceMeters' =
                        (IF lastPointRef # Null
                         THEN distanceMeters + haversineMeters(lastPointRef, p)
                         ELSE distanceMeters)
                 /\ lastPointRef' = p
                 /\ pointsRef' = Append(pointsRef, p)

\* the success callback of watchPosition
OnPosition(p) ==
    /\ watches # {}
    /\ lastSample' = p
    /\ addPoint(p)
    /\ UNCHANGED <<archiveVars, isTracking, isPrivate, errorMessage, elapsedSec,
                   startedAt, startTimeLabel, isSaving, hasDraft, finishScreen,
                   handleVars, draftStore, effect, snapAge, tickDue, taskVars,
                   lastAlert, worldVars, quietSec>>

OnPositionError_EndsSession(code) ==
    /\ watches # {}
    /\ IF code = 1
       THEN /\ errorMessage' = [message |-> "GPS Permission Denied"]
            /\ watches' = (IF watchIdRef # NoHandle THEN watches \ {watchIdRef} ELSE watches)
            /\ watchIdRef' = NoHandle
            /\ timers' = (IF timerRef # NoHandle THEN timers \ {timerRef} ELSE timers)
            /\ UNCHANGED timerRef
            /\ draftStore' = Null
            /\ isTracking' = FALSE
            /\ gpsStatus' = "Idle"
            /\ tickDue' = FALSE
            /\ lastSample' = Null
            /\ quietSec' = 0
            /\ UNCHANGED <<effect, snapAge>>
       ELSE /\ gpsStatus' = "Error"
            /\ UNCHANGED <<errorMessage, isTracking, handleVars, draftStore, effect,
                           snapAge, tickDue, lastSample, quietSec>>
    /\ UNCHANGED <<archiveVars, isPrivate, sessionVars, isSaving,
                   hasDraft, finishScreen, lastPointRef, pointsRef,
                   taskVars, lastAlert, worldVars>>


\* the error callback of watchPosition
OnPositionError(code) ==
    /\ watches # {}
    /\ IF code = 1
       THEN errorMessage' = [message |-> "GPS Permission Denied"] /\ UNCHANGED gpsStatus
       ELSE gpsStatus' = "Error" /\ UNCHANGED errorMessage
    /\ UNCHANGED <<archiveVars, isTracking, isPrivate, sessionVars, isSaving,
                   hasDraft, finishScreen, handleVars, lastPointRef, pointsRef,
                   draftStore, effect, snapAge, tickDue, taskVars,
                   lastAlert, worldVars, lastSample, quietSec>>

\* ------------------------------------------------- startTracking / stop
\* the part of startTracking after the state is set up: lines 137-149
BeginWatching ==
    /\ isTracking' = TRUE
    /\ gpsStatus' = "Searching"
    /\ LET t == FreshHandle(timers)
           w == FreshHandle(watches)
       IN /\ timerRef' = t /\ timers' = timers \cup {t}
          /\ watchIdRef' = w /\ watches' = watches \cup {w}
    /\ tickDue' = FALSE
    /\ lastSample' = Null
    /\ quietSec' = 0

\* startTracking throws: resumingDraft.points[...] on an object without points
startTrackingThrows(resumingDraft) ==
    geolocation /\ resumingDraft # Null /\ "points" \notin DOMAIN resumingDraft

\* startTracking(resumingDraft?): Null stands for a call without argument,
\* and for one with null
startTracking(resumingDraft) ==
    IF ~geolocation
    THEN /\ lastAlert' = "GPS not supported."
         /\ UNCHANGED <<sessionVars, isPrivate, lastPointRef, pointsRef, isTracking,
                        gpsStatus, handleVars, tickDue, lastSample, quietSec, now,
                        sessionOrigin>>
    ELSE IF startTrackingThrows(resumingDraft)
    \* line 120 has stored the missing points, line 121 throws
    THEN /\ pointsRef' = Undefined
         /\ UNCHANGED <<sessionVars, isPrivate, lastPointRef, isTracking,
                        gpsStatus, handleVars, tickDue, lastSample, quietSec, now,
                        sessionOrigin, lastAlert>>
    ELSE /\ IF resumingDraft # Null
            THEN /\ pointsRef' = resumingDraft.points
                 /\ lastPointRef' = (IF resumingDraft.points # <<>>
                                     THEN Last(resumingDraft.points) ELSE Null)
                 /\ distanceMeters' = resumingDraft.distanceMeters
                 /\ elapsedSec' = resumingDraft.elapsedSec
                 /\ startedAt' = parseISO(resumingDraft.startedAt)
                 /\ startTimeLabel' =
                        (IF resumingDraft.startTime # <<>>
                         THEN resumingDraft.startTime
                         ELSE formatTimeShort(parseISO(resumingDraft.startedAt)))
                 /\ isPrivate' = resumingDraft.isPrivate
                 /\ sessionOrigin' = "resume"
                 /\ UNCHANGED now
            ELSE /\ now' = now + 1
                 /\ pointsRef' = <<>>
                 /\ lastPointRef' = Null
                 /\ distanceMeters' = 0
                 /\ elapsedSec' = 0
                 /\ startedAt' = now'
                 /\ startTimeLabel' = formatTimeShort(now')
                 /\ sessionOrigin' = "start"
                 /\ UNCHANGED isPrivate
         /\ BeginWatching
         /\ UNCHANGED lastAlert

\* the START RECORDING button
StartRecording ==
    /\ MainScreen /\ ~isTracking /\ finishScreen = Null
    /\ startTracking(Null)
    /\ UNCHANGED <<archiveVars, errorMessage, isSaving, hasDraft, finishScreen,
                   draftStore, taskVars, geocodeCalls, geolocation>>
    /\ CommitRender

handleResume_DropsDistance ==
    /\ MainScreen /\ hasDraft /\ ~isTracking /\ finishScreen = Null
    /\ IF draftStore = Null
       THEN /\ hasDraft' = FALSE
            /\ UNCHANGED <<sessionVars, isPrivate, lastPointRef, pointsRef, isTracking,
                           gpsStatus, handleVars, tickDue, lastSample, quietSec, now,
                           sessionOrigin, lastAlert>>
       ELSE /\ UNCHANGED hasDraft
            /\ startTracking([draftStore EXCEPT !.distanceMeters = 0])
    /\ UNCHANGED <<archiveVars, errorMessage, isSaving, finishScreen, draftStore,
                   taskVars, geocodeCalls, geolocation>>
    /\ CommitRender

\* the Resume button of the draft banner
handleResume ==
    /\ MainScreen /\ hasDraft /\ ~isTracking /\ finishScreen = Null
    /\ IF draftStore = Null
       THEN /\ hasDraft' = FALSE
            /\ UNCHANGED <<sessionVars, isPrivate, lastPointRef, pointsRef, isTracking,
                           gpsStatus, handleVars, tickDue, lastSample, quietSec, now,
                           sessionOrigin, lastAlert, draftStore>>
       ELSE IF draftStore = Unparseable
       \* JSON.parse throws: the catch removes the key
       THEN /\ draftStore' = Null
            /\ hasDraft' = FALSE
            /\ UNCHANGED <<sessionVars, isPrivate, lastPointRef, pointsRef, isTracking,
                           gpsStatus, handleVars, tickDue, lastSample, quietSec, now,
                           sessionOrigin, lastAlert>>
       ELSE /\ hasDraft' = FALSE
            /\ startTracking(JSONparse(draftStore))
            /\ draftStore' = (IF startTrackingThrows(JSONparse(draftStore))
                              THEN Null ELSE draftStore)
    /\ UNCHANGED <<archiveVars, errorMessage, isSaving, finishScreen,
                   taskVars, geocodeCalls, geolocation>>
    /\ CommitRender

\* the Discard button of the draft banner
handleDiscard ==
    /\ MainScreen /\ hasDraft /\ ~isTracking /\ finishScreen = Null
    /\ draftStore' = Null
    /\ hasDraft' = FALSE
    /\ UNCHANGED <<archiveVars, isTracking, isPrivate, gpsStatus, errorMessage,
                   sessionVars, isSaving, finishScreen, handleVars, lastPointRef,
                   pointsRef, tickDue, taskVars, lastAlert, worldVars, lastSample,
                   quietSec>>
    /\ CommitRender

\* the process is killed and the page opened again: every cell is
\* re-initialised, the archive is loaded and the mount effect looks for a draft
Reload ==
    /\ trips' = storedTrips
    /\ UNCHANGED <<storedTrips, draftStore, geocodeCalls, now, geolocation, idSeq>>
    /\ sessionOrigin' = "none"
    /\ isTracking' = FALSE /\ isPrivate' = FALSE
    /\ gpsStatus' = "Idle" /\ errorMessage' = Null
    /\ distanceMeters' = 0 /\ elapsedSec' = 0
    /\ startedAt' = NoDate /\ startTimeLabel' = <<>>
    /\ activeTrip' = Null /\ isSaving' = FALSE
    /\ hasDraft' = (draftStore # Null)
    /\ finishScreen' = Null
    /\ watchIdRef' = NoHandle /\ timerRef' = NoHandle
    /\ lastPointRef' = Null /\ pointsRef' = <<>>
    /\ watches' = {} /\ timers' = {}
    /\ tickDue' = FALSE
    /\ finishTask' = NoTask /\ saveTask' = NoTask
    /\ lastAlert' = ""
    /\ lastSample' = Null /\ quietSec' = 0
    /\ CommitRender

stopTracking_KeepsDraft ==
    /\ watches' = (IF watchIdRef # NoHandle THEN watches \ {watchIdRef} ELSE watches)
    /\ watchIdRef' = NoHandle
    /\ timers' = (IF timerRef # NoHandle THEN timers \ {timerRef} ELSE timers)
    /\ UNCHANGED <<timerRef, draftStore>>
    /\ isTracking' = FALSE
    /\ gpsStatus' = "Idle"
    /\ tickDue' = FALSE
    /\ lastSample' = Null
    /\ quietSec' = 0

stopTracking ==
    /\ watches' = (IF watchIdRef # NoHandle THEN watches \ {watchIdRef} ELSE watches)
    /\ watchIdRef' = NoHandle
    /\ timers' = (IF timerRef # NoHandle THEN timers \ {timerRef} ELSE timers)
    /\ UNCHANGED timerRef
    /\ draftStore' = Null
    /\ isTracking' = FALSE
    /\ gpsStatus' = "Idle"
    /\ tickDue' = FALSE
    /\ lastSample' = Null
    /\ quietSec' = 0

\* the Discard Trip button: if (confirm(...)) stopTracking()
DiscardTrip(confirmed) ==
    /\ MainScreen /\ isTracking /\ finishScreen = Null
    /\ IF confirmed
       THEN stopTracking
       ELSE UNCHANGED <<handleVars, draftStore, isTracking, gpsStatus, tickDue,
                         lastSample, quietSec>>
    /\ UNCHANGED <<archiveVars, isPrivate, errorMessage, sessionVars, isSaving,
                   hasDraft, finishScreen, lastPointRef, pointsRef, taskVars,
                   lastAlert, worldVars>>
    /\ CommitRender

\* ----------------------------------------------------- timers, rendering
\* dt seconds of wall-clock time go by: both intervals age, the elapsed tick
\* falls due
TimePasses(dt) ==
    /\ isTracking
    /\ snapAge' = Min(snapAge + dt, SnapshotPeriodSec)
    /\ tickDue' = (timers # {})
    /\ quietSec' = (IF dt = TickPeriodSec /\ ~tickDue /\ Committed
                    THEN Min(quietSec + 1, SnapshotPeriodSec + 1)
                    ELSE 0)
    /\ UNCHANGED <<archiveVars, isTracking, isPrivate, gpsStatus, errorMessage,
                   sessionVars, isSaving, hasDraft, finishScreen, handleVars,
                   lastPointRef, pointsRef, draftStore, effect, taskVars,
                   lastAlert, worldVars, lastSample>>

\* the elapsed tick: setInterval(() => setElapsedSec(s => s + 1), 1000)
ElapsedTick ==
    /\ tickDue /\ timers # {}
    /\ elapsedSec' = elapsedSec + Cardinality(timers)
    /\ tickDue' = FALSE
    /\ UNCHANGED <<archiveVars, isTracking, isPrivate, gpsStatus, errorMessage,
                   distanceMeters, startedAt, startTimeLabel, isSaving, hasDraft,
                   finishScreen, handleVars, lastPointRef, pointsRef, draftStore,
                   effect, snapAge, taskVars, lastAlert, worldVars, lastSample, quietSec>>

\* React commits the state a callback set: the snapshot effect's cleanup
\* clears the armed interval and the effect arms a new one
RenderEffect ==
    /\ ~Committed
    /\ effect' = (IF isTracking THEN Deps ELSE NoEffect)
    /\ snapAge' = 0
    /\ UNCHANGED <<archiveVars, isTracking, isPrivate, gpsStatus, errorMessage,
                   sessionVars, isSaving, hasDraft, finishScreen, handleVars,
                   lastPointRef, pointsRef, draftStore, tickDue, taskVars,
                   lastAlert, worldVars, lastSample, quietSec>>

\* the DraftTrip the armed interval's callback builds: the closure's state
\* and the live point buffer
DraftOf(e, pts) ==
    [startedAt |-> toISOString(e.startedAt), startTime |-> e.startTimeLabel,
     isPrivate |-> e.isPrivate, elapsedSec |-> e.elapsedSec,
     distanceMeters |-> e.distanceMeters, points |-> pts]

\* the snapshot interval fires, 10 s after the effect armed it; the browser
\* runs the elapsed tick, set earlier and due sooner, before it
SnapshotWrite ==
    /\ effect.isTracking
    /\ snapAge >= SnapshotPeriodSec
    /\ ~tickDue
    /\ draftStore' = DraftOf(effect, pointsRef)
    /\ snapAge' = 0
    /\ quietSec' = 0
    /\ UNCHANGED <<archiveVars, isTracking, isPrivate, gpsStatus, errorMessage,
                   sessionVars, isSaving, hasDraft, finishScreen, handleVars,
                   lastPointRef, pointsRef, effect, tickDue, taskVars,
                   lastAlert, worldVars, lastSample>>

\* ----------------------------------------------------- finish / review
\* the labels of the review summary are sequences of words
Placeholder(side) == IF side = "start" THEN <<"Start">> ELSE <<"End">>

\* a response of the Nominatim service to one lookup
NetError == [ok |-> FALSE]
Address(road, area) == [ok |-> TRUE, road |-> road, area |-> area]
GeoResponses == {NetError, Address("Elm St", "Oslo"), Address("", "Oslo"), Address("", "")}

\* reverseGeocode: "road, area", or whichever is there, or the empty label
reverseGeocode(resp) ==
    IF ~resp.ok THEN <<>>
    ELSE IF resp.road # "" /\ resp.area # "" THEN <<resp.road, resp.area>>
    ELSE IF resp.road # "" THEN <<resp.road>>
    ELSE IF resp.area # "" THEN <<resp.area>>
    ELSE <<>>

\* sRes || "Start"
OrPlaceholder(label, side) == IF label # <<>> THEN label ELSE Placeholder(side)

\* the object handleFinish passes to setFinishScreen
ReviewOf(startLoc, endLoc, snapPoints, snapDist, snapTime, snapStart, startStr, snapEnd) ==
    [show |-> TRUE, startLabel |-> startLoc, endLabel |-> endLoc,
     points |-> snapPoints, dist |-> snapDist, time |-> snapTime,
     start |-> snapStart, startTimeStr |-> startStr,
     endTimeStr |-> formatTimeShort(snapEnd)]

handleFinish_AlwaysLooksUp(confirmed) ==
    /\ MainScreen /\ isTracking /\ finishScreen = Null /\ ~isSaving
    /\ finishTask.pc # "await"
    /\ IF Len(pointsRef) < 2 /\ ~confirmed
       THEN UNCHANGED <<isSaving, finishScreen, finishTask, geocodeCalls, handleVars,
                        draftStore, isTracking, gpsStatus, tickDue, lastSample, quietSec>>
       ELSE /\ stopTracking
            /\ IF pointsRef = <<>>
               THEN /\ isSaving' = TRUE
                    /\ finishTask' = [pc |-> "failed"]
                    /\ UNCHANGED <<finishScreen, geocodeCalls>>
               ELSE /\ isSaving' = TRUE
                    /\ geocodeCalls' = geocodeCalls + 2
                    /\ finishTask' =
                          [pc |-> "await", isPrivate |-> isPrivate,
                           snapPoints |-> pointsRef, snapDist |-> distanceMeters,
                           snapTime |-> elapsedSec,
                           snapStart |-> (IF startedAt # NoDate THEN startedAt ELSE now),
                           snapEndTime |-> now, startTimeLabel |-> startTimeLabel,
                           sRes |-> Pending, eRes |-> Pending]
                    /\ UNCHANGED finishScreen
    /\ UNCHANGED <<archiveVars, isPrivate, errorMessage, sessionVars, hasDraft,
                   lastPointRef, pointsRef, saveTask, lastAlert, now, geolocation,
                   sessionOrigin>>
    /\ CommitRender

handleFinish_StopsAnyway(confirmed) ==
    /\ MainScreen /\ isTracking /\ finishScreen = Null /\ ~isSaving
    /\ finishTask.pc # "await"
    /\ IF Len(pointsRef) < 2 /\ ~confirmed
       THEN /\ stopTracking
            /\ UNCHANGED <<isSaving, finishScreen, finishTask, geocodeCalls>>
       ELSE /\ stopTracking
            /\ IF isPrivate
               THEN /\ finishScreen' =
                          ReviewOf(Placeholder("start"), Placeholder("end"),
                                   pointsRef, distanceMeters, elapsedSec,
                                   (IF startedAt # NoDate THEN startedAt ELSE now),
                                   startTimeLabel, now)
                    /\ isSaving' = FALSE
                    /\ finishTask' = NoTask
                    /\ UNCHANGED geocodeCalls
               ELSE IF pointsRef = <<>>
               THEN /\ isSaving' = TRUE
                    /\ finishTask' = [pc |-> "failed"]
                    /\ UNCHANGED <<finishScreen, geocodeCalls>>
               ELSE /\ isSaving' = TRUE
                    /\ geocodeCalls' = geocodeCalls + 2
                    /\ finishTask' =
                          [pc |-> "await", isPrivate |-> isPrivate,
                           snapPoints |-> pointsRef, snapDist |-> distanceMeters,
                           snapTime |-> elapsedSec,
                           snapStart |-> (IF startedAt # NoDate THEN startedAt ELSE now),
                           snapEndTime |-> now, startTimeLabel |-> startTimeLabel,
                           sRes |-> Pending, eRes |-> Pending]
                    /\ UNCHANGED finishScreen
    /\ UNCHANGED <<archiveVars, isPrivate, errorMessage, sessionVars, hasDraft,
                   lastPointRef, pointsRef, saveTask, lastAlert, now, geolocation,
                   sessionOrigin>>
    /\ CommitRender

\* the STOP & FINISH button: handleFinish up to its await (all of it, for a
\* private session); confirmed is the answer to "Stop anyway?"
handleFinish(confirmed) ==
    /\ MainScreen /\ isTracking /\ finishScreen = Null /\ ~isSaving
    /\ finishTask.pc # "await"
    /\ IF Len(pointsRef) < 2 /\ ~confirmed
       THEN UNCHANGED <<isSaving, finishScreen, finishTask, geocodeCalls, handleVars,
                        draftStore, isTracking, gpsStatus, tickDue, lastSample, quietSec>>
       ELSE /\ stopTracking
            /\ IF isPrivate
               THEN /\ finishScreen' =
                          ReviewOf(Placeholder("start"), Placeholder("end"),
                                   pointsRef, distanceMeters, elapsedSec,
                                   (IF startedAt # NoDate THEN startedAt ELSE now),
                                   startTimeLabel, now)
                    /\ isSaving' = FALSE
                    /\ finishTask' = NoTask
                    /\ UNCHANGED geocodeCalls
               ELSE IF pointsRef = <<>>
               \* snapPoints[0].lat: TypeError, the promise of handleFinish rejects
               THEN /\ isSaving' = TRUE
                    /\ finishTask' = [pc |-> "failed"]
                    /\ UNCHANGED <<finishScreen, geocodeCalls>>
               ELSE /\ isSaving' = TRUE
                    /\ geocodeCalls' = geocodeCalls + 2
                    /\ finishTask' =
                          [pc |-> "await", isPrivate |-> isPrivate,
                           snapPoints |-> pointsRef, snapDist |-> distanceMeters,
                           snapTime |-> elapsedSec,
                           snapStart |-> (IF startedAt # NoDate THEN startedAt ELSE now),
                           snapEndTime |-> now, startTimeLabel |-> startTimeLabel,
                           sRes |-> Pending, eRes |-> Pending]
                    /\ UNCHANGED finishScreen
    /\ UNCHANGED <<archiveVars, isPrivate, errorMessage, sessionVars, hasDraft,
                   lastPointRef, pointsRef, saveTask, lastAlert, now, geolocation,
                   sessionOrigin>>
    /\ CommitRender

\* everything but the cells the finish continuation sets
finishFrame == <<archiveVars, isTracking, isPrivate, gpsStatus, errorMessage,
                 sessionVars, hasDraft, handleVars, lastPointRef, pointsRef,
                 draftStore, effect, snapAge, tickDue, saveTask, lastAlert,
                 worldVars, lastSample, quietSec>>

\* one of the two lookups of Promise.all returns
GeocodeReturns(side, resp) ==
    /\ finishTask.pc = "await"
    /\ IF side = "start"
       THEN /\ finishTask.sRes = Pending
            /\ finishTask' = [finishTask EXCEPT !.sRes = reverseGeocode(resp)]
       ELSE /\ finishTask.eRes = Pending
            /\ finishTask' = [finishTask EXCEPT !.eRes = reverseGeocode(resp)]
    /\ UNCHANGED <<finishFrame, isSaving, finishScreen>>

\* handleFinish after its await: lines 207-222
FinishResume ==
    /\ finishTask.pc = "await"
    /\ finishTask.sRes # Pending /\ finishTask.eRes # Pending
    /\ isSaving' = FALSE
    /\ finishScreen' = ReviewOf(OrPlaceholder(finishTask.sRes, "start"),
                                OrPlaceholder(finishTask.eRes, "end"),
                                finishTask.snapPoints, finishTask.snapDist,
                                finishTask.snapTime, finishTask.snapStart,
                                finishTask.startTimeLabel, finishTask.snapEndTime)
    /\ finishTask' = NoTask
    /\ UNCHANGED finishFrame

\* everything but the review summary
reviewFrame == <<archiveVars, isTracking, isPrivate, gpsStatus, errorMessage,
                 sessionVars, isSaving, hasDraft, handleVars, lastPointRef,
                 pointsRef, draftStore, effect, snapAge, tickDue, taskVars,
                 lastAlert, worldVars, lastSample, quietSec>>

\* typing in one of the two label inputs of the review
EditLabel(side, text) ==
    /\ activeTrip = Null /\ Committed /\ finishScreen # Null
    /\ finishScreen' = (IF side = "start"
                        THEN [finishScreen EXCEPT !.startLabel = text]
                        ELSE [finishScreen EXCEPT !.endLabel = text])
    /\ UNCHANGED reviewFrame

\* the Back to recording button of the review
BackToRecording ==
    /\ activeTrip = Null /\ Committed /\ finishScreen # Null
    /\ finishScreen' = Null
    /\ UNCHANGED reviewFrame

\* the privacy toggle of the header
TogglePrivate ==
    /\ MainScreen /\ ~isTracking /\ finishScreen = Null
    /\ isPrivate' = ~isPrivate
    /\ UNCHANGED <<archiveVars, isTracking, gpsStatus, errorMessage, sessionVars,
                   isSaving, hasDraft, finishScreen, handleVars, lastPointRef,
                   pointsRef, draftStore, tickDue, taskVars, lastAlert, worldVars,
                   lastSample, quietSec>>
    /\ CommitRender

\* ------------------------------------------------- commit, the archive
\* what generateTripInsight (services/geminiService) does with a call:
\* it returns a text, returns nothing, or fails
InsightText == "A calm walk."
InsightAbsent == ""
InsightFails == "(rejects)"
InsightOutcomes == {InsightText, InsightAbsent, InsightFails}

\* generatePosterPng (utils/canvas): the image drawn from the labels, or a throw
PosterThrows == <<"(throws)">>
generatePosterPng(startLabel, endLabel) == <<"png", startLabel, endLabel>>

\* saveTrips: the first 50 trips go to localStorage
saveTrips(ts) == SubSeq(ts, 1, Min(Len(ts), ArchiveCap))

\* the Trip handleFinalSave assembles: lines 248-262
NewTrip(id, fs, private, poster, insight) ==
    [id |-> id, name |-> "ACTIVITY", date |-> toISOString(fs.start),
     startTime |-> fs.startTimeStr, endTime |-> fs.endTimeStr,
     isPrivate |-> private, distanceMeters |-> fs.dist, durationSec |-> fs.time,
     points |-> fs.points, posterPngBase64 |-> poster, aiInsight |-> insight,
     startLabel |-> fs.startLabel, endLabel |-> fs.endLabel]

\* the Generate Poster button: handleFinalSave up to its await
handleFinalSave ==
    /\ activeTrip = Null /\ Committed /\ finishScreen # Null /\ ~isSaving
    /\ saveTask.pc # "await"
    /\ isSaving' = TRUE
    /\ saveTask' = [pc |-> "await", fs |-> finishScreen, isPrivate |-> isPrivate]
    /\ UNCHANGED <<archiveVars, isTracking, isPrivate, gpsStatus, errorMessage,
                   sessionVars, hasDraft, finishScreen, handleVars, lastPointRef,
                   pointsRef, draftStore, effect, snapAge, tickDue, finishTask,
                   lastAlert, worldVars, lastSample, quietSec>>

\* everything but the cells the commit continuation sets
saveFrame == <<isTracking, isPrivate, gpsStatus, errorMessage, sessionVars,
               hasDraft, handleVars, lastPointRef, pointsRef, draftStore, effect,
               snapAge, tickDue, finishTask, worldVars, lastSample, quietSec>>

FinalSaveResume_SavesWithoutPoster(insight, posterOk) ==
    /\ saveTask.pc = "await"
    /\ IF insight # InsightFails
       THEN LET fs == saveTask.fs
                poster == IF posterOk
                          THEN generatePosterPng(fs.startLabel, fs.endLabel)
                          ELSE PosterThrows
                newTrip == NewTrip(idSeq + 1, fs, saveTask.isPrivate, poster, insight)
            IN /\ idSeq' = idSeq + 1
               /\ trips' = <<newTrip>> \o trips
               /\ storedTrips' = saveTrips(trips')
               /\ activeTrip' = newTrip
               /\ finishScreen' = Null
               /\ lastAlert' = (IF posterOk THEN lastAlert
                                ELSE "Poster failed to generate, but trip is saved.")
       ELSE /\ lastAlert' = "Poster failed to generate, but trip is saved."
            /\ UNCHANGED <<archiveVars, finishScreen>>
    /\ isSaving' = FALSE
    /\ saveTask' = NoTask
    /\ UNCHANGED saveFrame

FinalSaveResume_DropsReview(insight, posterOk) ==
    /\ saveTask.pc = "await"
    /\ IF insight # InsightFails /\ posterOk
       THEN LET fs == saveTask.fs
                poster == generatePosterPng(fs.startLabel, fs.endLabel)
                newTrip == NewTrip(idSeq + 1, fs, saveTask.isPrivate, poster, insight)
            IN /\ idSeq' = idSeq + 1
               /\ trips' = <<newTrip>> \o trips
               /\ storedTrips' = saveTrips(trips')
               /\ activeTrip' = newTrip
               /\ finishScreen' = Null
               /\ UNCHANGED lastAlert
       ELSE /\ lastAlert' = "Poster failed to generate, but trip is saved."
            /\ finishScreen' = Null
            /\ UNCHANGED archiveVars
    /\ isSaving' = FALSE
    /\ saveTask' = (IF insight = InsightFails THEN [pc |-> "insight failed"]
                    ELSE IF ~posterOk THEN [pc |-> "poster failed"]
                    ELSE NoTask)
    /\ UNCHANGED saveFrame

FinalSaveResume_Appends(insight, posterOk) ==
    /\ saveTask.pc = "await"
    /\ IF insight # InsightFails /\ posterOk
       THEN LET fs == saveTask.fs
                poster == generatePosterPng(fs.startLabel, fs.endLabel)
                newTrip == NewTrip(idSeq + 1, fs, saveTask.isPrivate, poster, insight)
            IN /\ idSeq' = idSeq + 1
               /\ trips' = Append(trips, newTrip)
               /\ storedTrips' = saveTrips(trips')
               /\ activeTrip' = newTrip
               /\ finishScreen' = Null
               /\ UNCHANGED lastAlert
       ELSE /\ lastAlert' = "Poster failed to generate, but trip is saved."
            /\ UNCHANGED <<archiveVars, finishScreen>>
    /\ isSaving' = FALSE
    /\ saveTask' = (IF insight = InsightFails THEN [pc |-> "insight failed"]
                    ELSE IF ~posterOk THEN [pc |-> "poster failed"]
                    ELSE NoTask)
    /\ UNCHANGED saveFrame

\* handleFinalSave after its await: insight is what generateTripInsight
\* settled with, posterOk whether generatePosterPng returns
FinalSaveResume(insight, posterOk) ==
    /\ saveTask.pc = "await"
    /\ IF insight # InsightFails /\ posterOk
       THEN LET fs == saveTask.fs
                poster == generatePosterPng(fs.startLabel, fs.endLabel)
                newTrip == NewTrip(idSeq + 1, fs, saveTask.isPrivate, poster, insight)
            IN /\ idSeq' = idSeq + 1
               /\ trips' = <<newTrip>> \o trips
               /\ storedTrips' = saveTrips(trips')
               /\ activeTrip' = newTrip
               /\ finishScreen' = Null
               /\ UNCHANGED lastAlert
       ELSE /\ lastAlert' = "Poster failed to generate, but trip is saved."
            /\ UNCHANGED <<archiveVars, finishScreen>>
    /\ isSaving' = FALSE
    /\ saveTask' = (IF insight = InsightFails THEN [pc |-> "insight failed"]
                    ELSE IF ~posterOk THEN [pc |-> "poster failed"]
                    ELSE NoTask)
    /\ UNCHANGED saveFrame

\* everything but the archive and the saving flag
overlayFrame == <<isTracking, isPrivate, gpsStatus, errorMessage, sessionVars,
                  hasDraft, finishScreen, handleVars, lastPointRef, pointsRef,
                  draftStore, effect, snapAge, tickDue, taskVars, lastAlert,
                  worldVars, lastSample, quietSec>>

\* a click on a trip of Recent Paths
OpenTrip(i) ==
    /\ MainScreen /\ finishScreen = Null
    /\ i \in 1..Len(trips)
    /\ activeTrip' = trips[i]
    /\ UNCHANGED <<trips, storedTrips, idSeq, isSaving, overlayFrame>>

\* the close button of the trip overlay
CloseTrip ==
    /\ activeTrip # Null /\ Committed
    /\ activeTrip' = Null
    /\ UNCHANGED <<trips, storedTrips, idSeq, isSaving, overlayFrame>>

\* prev.map(t => t.id === trip.id ? updated : t)
ReplaceById(ts, updated) ==
    [i \in 1..Len(ts) |-> IF ts[i].id = updated.id THEN updated ELSE ts[i]]

forceRegenerate_Relabels(posterOk) ==
    /\ activeTrip # Null /\ Committed
    /\ IF posterOk
       THEN LET updated ==
                  [activeTrip EXCEPT
                      !.startLabel = OrPlaceholder(activeTrip.startLabel, "start"),
                      !.endLabel = OrPlaceholder(activeTrip.endLabel, "end"),
                      !.posterPngBase64 =
                          generatePosterPng(OrPlaceholder(activeTrip.startLabel, "start"),
                                            OrPlaceholder(activeTrip.endLabel, "end"))]
            IN /\ trips' = ReplaceById(trips, updated)
               /\ storedTrips' = saveTrips(trips')
               /\ activeTrip' = updated
       ELSE UNCHANGED <<trips, storedTrips, activeTrip>>
    /\ isSaving' = FALSE
    /\ UNCHANGED <<idSeq, overlayFrame>>

\* the Refix Map button of the trip overlay
forceRegenerate(posterOk) ==
    /\ activeTrip # Null /\ Committed
    /\ IF posterOk
       THEN LET updated ==
                  [activeTrip EXCEPT !.posterPngBase64 =
                      generatePosterPng(OrPlaceholder(activeTrip.startLabel, "start"),
                                        OrPlaceholder(activeTrip.endLabel, "end"))]
            IN /\ trips' = ReplaceById(trips, updated)
               /\ storedTrips' = saveTrips(trips')
               /\ activeTrip' = updated
       ELSE UNCHANGED <<trips, storedTrips, activeTrip>>
    /\ isSaving' = FALSE
    /\ UNCHANGED <<idSeq, overlayFrame>>

\* prev.filter(t => t.id !== activeTrip.id)
RemoveById(ts, id) == SelectSeq(ts, LAMBDA t : t.id # id)

\* the delete button of the trip overlay
DeleteTrip(confirmed) ==
    /\ activeTrip # Null /\ Committed
    /\ IF confirmed
       THEN /\ trips' = RemoveById(trips, activeTrip.id)
            /\ storedTrips' = saveTrips(trips')
            /\ activeTrip' = Null
       ELSE UNCHANGED <<trips, storedTrips, activeTrip>>
    /\ UNCHANGED <<idSeq, isSaving, overlayFrame>>

\* ------------------------------------------------------ sample inputs
Lats == 0..MaxLat
Accs == {AccAbsent, AccLimit, AccLimit + 1}
Samples == {GeoPoint(lat, acc) : lat \in Lats, acc \in Accs}

\* --------------------------------------------- specification: the filter
NextFilter ==
    \/ (now < MaxSessions /\ StartRecording)
    \/ \E p \in Samples : (OnPosition(p) /\ Len(pointsRef') <= MaxPoints)
    \/ \E code \in {1, 3} : OnPositionError(code)
    \/ RenderEffect
    \/ \E c \in BOOLEAN : DiscardTrip(c)

SpecFilter == Init /\ [][NextFilter]_vars

\* ------------------------------- specification: the timers of a session
\* samples of a walk in steps of one metre
WalkSamples == {GeoPoint(lat * Scale, AccLimit) : lat \in 0..1}

NextTimer ==
    \/ (now < TimedSessions /\ StartRecording)
    \/ \E p \in WalkSamples : (OnPosition(p) /\ Len(pointsRef') <= MaxPoints)
    \/ TimePasses(TickPeriodSec)
    \/ (elapsedSec < SnapshotPeriodSec + ExtraTicks /\ ElapsedTick)
    \/ RenderEffect
    \/ SnapshotWrite
    \/ DiscardTrip(TRUE)

SpecTimer == Init /\ [][NextTimer]_vars

\* ------------------- specification: sessions, the draft store, finish
\* two samples a metre apart
EngineSamples == {GeoPoint(lat * Scale, AccLimit) : lat \in 0..1}
\* the lookups of the engine specification fail or find a street
EngineResponses == {NetError, Address("Elm St", "Oslo")}

Next ==
    \/ (now < MaxSessions /\ StartRecording)
    \/ \E p \in EngineSamples : (OnPosition(p) /\ Len(pointsRef') <= MaxEnginePoints)
    \/ (~tickDue /\ Committed /\ TimePasses(TickPeriodSec))
    \/ TimePasses(SnapshotPeriodSec)
    \/ (elapsedSec < MaxElapsed /\ ElapsedTick)
    \/ RenderEffect
    \/ SnapshotWrite
    \/ \E c \in BOOLEAN : DiscardTrip(c)
    \/ handleResume
    \/ handleDiscard
    \/ Reload
    \/ TogglePrivate
    \/ \E c \in BOOLEAN : handleFinish(c)
    \/ \E side \in {"start", "end"}, resp \in EngineResponses : GeocodeReturns(side, resp)
    \/ FinishResume
    \/ BackToRecording

Spec == Init /\ [][Next]_vars

\* --------------------- specification: finish and its two lookups
NextFinish ==
    \/ (now < MaxSessions /\ StartRecording)
    \/ \E p \in EngineSamples : (OnPosition(p) /\ Len(pointsRef') <= MaxEnginePoints)
    \/ RenderEffect
    \/ TogglePrivate
    \/ \E c \in BOOLEAN : DiscardTrip(c)
    \/ \E c \in BOOLEAN : handleFinish(c)
    \/ \E side \in {"start", "end"}, resp \in GeoResponses : GeocodeReturns(side, resp)
    \/ FinishResume
    \/ BackToRecording

SpecFinish == Init /\ [][NextFinish]_vars

\* ------------------------------ specification: review, commit, archive
\* what the user types into a label, or clears it
TypedLabels == {<<"Home">>, <<>>}

NextCommit ==
    \/ (now < CommitSessions /\ StartRecording)
    \/ \E p \in EngineSamples : (OnPosition(p) /\ Len(pointsRef') <= MaxEnginePoints)
    \/ RenderEffect
    \/ TogglePrivate
    \/ handleFinish(TRUE)
    \/ \E side \in {"start", "end"}, resp \in EngineResponses : GeocodeReturns(side, resp)
    \/ FinishResume
    \/ \E side \in {"start", "end"}, text \in TypedLabels : EditLabel(side, text)
    \/ BackToRecording
    \/ (Len(trips) < MaxTrips /\ handleFinalSave)
    \/ \E insight \in InsightOutcomes, posterOk \in BOOLEAN : FinalSaveResume(insight, posterOk)
    \/ \E i \in 1..Len(trips) : OpenTrip(i)
    \/ CloseTrip
    \/ \E posterOk \in BOOLEAN : forceRegenerate(posterOk)
    \/ \E c \in BOOLEAN : DeleteTrip(c)
    \/ Reload

\* a trip committed by an earlier run: a private session without points
OldTrip ==
    NewTrip(1, ReviewOf(Placeholder("start"), Placeholder("end"), <<>>, 0, 0, 0,
                        formatTimeShort(0), 0),
            TRUE, generatePosterPng(Placeholder("start"), Placeholder("end")),
            InsightAbsent)

\* the page opens with the archive an earlier run stored
InitCommit ==
    /\ storedTrips \in {<<>>, <<OldTrip>>}
    /\ trips = storedTrips
    /\ idSeq = Len(storedTrips)
    /\ isTracking = FALSE /\ isPrivate = FALSE
    /\ gpsStatus = "Idle" /\ errorMessage = Null
    /\ distanceMeters = 0 /\ elapsedSec = 0
    /\ startedAt = NoDate /\ startTimeLabel = <<>>
    /\ activeTrip = Null /\ isSaving = FALSE
    /\ hasDraft = FALSE /\ finishScreen = Null
    /\ watchIdRef = NoHandle /\ timerRef = NoHandle
    /\ lastPointRef = Null /\ pointsRef = <<>>
    /\ draftStore = Null
    /\ watches = {} /\ timers = {}
    /\ effect = NoEffect /\ snapAge = 0 /\ tickDue = FALSE
    /\ finishTask = NoTask /\ saveTask = NoTask
    /\ geocodeCalls = 0 /\ lastAlert = "" /\ now = 0
    /\ geolocation = TRUE
    /\ sessionOrigin = "none"
    /\ lastSample = Null /\ quietSec = 0

SpecCommit == InitCommit /\ [][NextCommit]_vars

\* ===================================================================
\* Claims
\* ===================================================================

\* ------------------------------ specification: the archive at its cap
\* a trip stored by an earlier run under the given id
StoredTrip(id) == [OldTrip EXCEPT !.id = id]
\* an archive of n stored trips, newest first
StoredArchive(n) == [i \in 1..n |-> StoredTrip(n + 1 - i)]

\* the page opens with a stored archive that is full, or one short of it
InitCap ==
    /\ storedTrips \in {StoredArchive(ArchiveCap - 1), StoredArchive(ArchiveCap)}
    /\ trips = storedTrips
    /\ idSeq = Len(storedTrips)
    /\ isTracking = FALSE /\ isPrivate = FALSE
    /\ gpsStatus = "Idle" /\ errorMessage = Null
    /\ distanceMeters = 0 /\ elapsedSec = 0
    /\ startedAt = NoDate /\ startTimeLabel = <<>>
    /\ activeTrip = Null /\ isSaving = FALSE
    /\ hasDraft = FALSE /\ finishScreen = Null
    /\ watchIdRef = NoHandle /\ timerRef = NoHandle
    /\ lastPointRef = Null /\ pointsRef = <<>>
    /\ draftStore = Null
    /\ watches = {} /\ timers = {}
    /\ effect = NoEffect /\ snapAge = 0 /\ tickDue = FALSE
    /\ finishTask = NoTask /\ saveTask = NoTask
    /\ geocodeCalls = 0 /\ lastAlert = "" /\ now = 0
    /\ geolocation = TRUE
    /\ sessionOrigin = "none"
    /\ lastSample = Null /\ quietSec = 0

\* sessions are private, so finish() opens the review at once; the overlay is
\* opened on the newest or the oldest trip
NextCap ==
    \/ (~isPrivate /\ TogglePrivate)
    \/ (isPrivate /\ now < MaxSessions /\ StartRecording)
    \/ \E p \in EngineSamples : (OnPosition(p) /\ Len(pointsRef') <= MaxEnginePoints)
    \/ RenderEffect
    \/ handleFinish(TRUE)
    \/ BackToRecording
    \/ (Len(trips) <= ArchiveCap /\ handleFinalSave)
    \/ \E posterOk \in BOOLEAN : FinalSaveResume(InsightText, posterOk)
    \/ \E i \in {1, Len(trips)} : OpenTrip(i)
    \/ CloseTrip
    \/ \E posterOk \in BOOLEAN : forceRegenerate(posterOk)
    \/ (Len(trips) > ArchiveCap - MaxTrips /\ DeleteTrip(TRUE))
    \/ Reload

SpecCap == InitCap /\ [][NextCap]_vars

\* ------------------------- specification: errors of the location source
NextErrors ==
    \/ (now < TimedSessions /\ StartRecording)
    \/ \E p \in EngineSamples : (OnPosition(p) /\ Len(pointsRef') <= MaxEnginePoints)
    \/ \E code \in {1, 2, 3} : OnPositionError(code)
    \/ (~tickDue /\ Committed /\ TimePasses(TickPeriodSec))
    \/ (elapsedSec < MaxElapsed /\ ElapsedTick)
    \/ RenderEffect
    \/ \E c \in BOOLEAN : DiscardTrip(c)
    \/ \E c \in BOOLEAN : handleFinish(c)
    \/ \E side \in {"start", "end"}, resp \in EngineResponses : GeocodeReturns(side, resp)
    \/ FinishResume
    \/ BackToRecording

SpecErrors == Init /\ [][NextErrors]_vars


\* ------------------------------ specification: a malformed stored draft
\* the page opens on a draft key that holds a text that is not a DraftTrip;
\* the mount effect shows the banner for any text
InitMalformed ==
    /\ draftStore \in MalformedDrafts
    /\ hasDraft = TRUE
    /\ trips = <<>> /\ storedTrips = <<>> /\ idSeq = 0
    /\ isTracking = FALSE /\ isPrivate = FALSE
    /\ gpsStatus = "Idle" /\ errorMessage = Null
    /\ distanceMeters = 0 /\ elapsedSec = 0
    /\ startedAt = NoDate /\ startTimeLabel = <<>>
    /\ activeTrip = Null /\ isSaving = FALSE
    /\ finishScreen = Null
    /\ watchIdRef = NoHandle /\ timerRef = NoHandle
    /\ lastPointRef = Null /\ pointsRef = <<>>
    /\ watches = {} /\ timers = {}
    /\ effect = NoEffect /\ snapAge = 0 /\ tickDue = FALSE
    /\ finishTask = NoTask /\ saveTask = NoTask
    /\ geocodeCalls = 0 /\ lastAlert = "" /\ now = 0
    /\ geolocation = TRUE
    /\ sessionOrigin = "none"
    /\ lastSample = Null /\ quietSec = 0

NextMalformed ==
    \/ (now < MaxSessions /\ handleResume)
    \/ handleDiscard
    \/ (now < MaxSessions /\ StartRecording)
    \/ \E p \in EngineSamples : (OnPosition(p) /\ Len(pointsRef') <= MaxEnginePoints)
    \/ TimePasses(SnapshotPeriodSec)
    \/ (elapsedSec < MaxElapsed /\ ElapsedTick)
    \/ RenderEffect
    \/ SnapshotWrite
    \/ \E c \in BOOLEAN : DiscardTrip(c)
    \/ Reload

SpecMalformed == InitMalformed /\ [][NextMalformed]_vars

\* what the specification says of a sample, stated apart from the code
SpecWeak(p) == p.acc # AccAbsent /\ p.acc > 150
SpecNear(p) == lastPointRef # Null /\ Abs(lastPointRef.lat - p.lat) < Scale

\* C1: in a session started by start(), distanceMeters never decreases and,
\* after every sample, equals the sum of the distances between consecutive
\* points of the stored (accepted) point sequence.
C1_DistanceIsPathLength ==
    /\ [](distanceMeters = PathLength(pointsRef))
    /\ [][startedAt' = startedAt => distanceMeters' >= distanceMeters]_vars

\* C1 witness: three points are stored, the distance is their path length and
\* the last sample delivered was rejected.
C1_Witness ==
    /\ Len(pointsRef) = 3
    /\ distanceMeters = PathLength(pointsRef) /\ distanceMeters > 2 * Scale
    /\ lastSample # Null /\ lastSample # lastPointRef

\* C2: a sample whose accuracy is present and above 150 m changes only the
\* signal status, to weak: distance, point sequence and anchor stay, so the
\* anchor is always the last stored point.
C2_WeakSampleFrame ==
    /\ [][\A p \in Samples : (SpecWeak(p) /\ OnPosition(p)) =>
            (gpsStatus' = "Weak" /\ UNCHANGED <<distanceMeters, pointsRef, lastPointRef>>)]_vars
    /\ [](pointsRef # <<>> => lastPointRef = Last(pointsRef))

\* C2 witness: with points A, B stored, a weak sample C lying a metre beyond
\* B has been rejected and B is still the anchor.
C2_Witness ==
    /\ Len(pointsRef) = 2 /\ lastPointRef = pointsRef[2]
    /\ lastSample # Null /\ SpecWeak(lastSample)
    /\ Abs(lastSample.lat - lastPointRef.lat) >= Scale
    /\ gpsStatus = "Weak"
    /\ distanceMeters = PathLength(pointsRef)

\* C3: a sample of acceptable accuracy less than 1 m from the anchor sets the
\* status to good and changes nothing else; one that is 1 m or more from the
\* anchor is stored and counted, so consecutive stored points are at least
\* 1 m apart.
C3_NoiseSampleFrame ==
    /\ [][\A p \in Samples : (~SpecWeak(p) /\ OnPosition(p)) =>
            /\ gpsStatus' = "Good"
            /\ IF SpecNear(p)
               THEN UNCHANGED <<distanceMeters, pointsRef, lastPointRef>>
               ELSE pointsRef' = Append(pointsRef, p) /\ lastPointRef' = p]_vars
    /\ [](\A i \in 1..(Len(pointsRef) - 1) :
            Abs(pointsRef[i + 1].lat - pointsRef[i].lat) >= Scale)

\* C3 witness: a good sample half way to the next metre has been dropped and
\* the anchor has not moved.
C3_Witness ==
    /\ lastSample # Null /\ ~SpecWeak(lastSample)
    /\ lastPointRef # Null /\ lastSample.lat # lastPointRef.lat
    /\ Abs(lastSample.lat - lastPointRef.lat) < Scale
    /\ gpsStatus = "Good"
    /\ pointsRef # <<>> /\ lastPointRef = Last(pointsRef)

\* C4: while the engine is Tracking and the elapsed tick runs each second,
\* a snapshot is written to the draft slot within every 10 seconds: the
\* session never spends more than 10 such seconds without a write.
C4_SnapshotEveryTenSeconds == quietSec <= SnapshotPeriodSec

\* C5: resume() restores exactly the stored DraftTrip (points, distance,
\* elapsed, start time, privacy flag, anchor = the snapshot's last point) and
\* starts Tracking; every later sample adds to the distance the delta of the
\* points it appends and nothing else.
C5_ResumeRestoresDraft ==
    [][/\ (draftStore # Null /\ geolocation /\ handleResume) =>
            /\ isTracking'
            /\ pointsRef' = draftStore.points
            /\ distanceMeters' = draftStore.distanceMeters
            /\ elapsedSec' = draftStore.elapsedSec
            /\ toISOString(startedAt') = draftStore.startedAt
            /\ isPrivate' = draftStore.isPrivate
            /\ lastPointRef' = (IF draftStore.points = <<>> THEN Null
                                ELSE draftStore.points[Len(draftStore.points)])
       /\ \A p \in EngineSamples : OnPosition(p) =>
            distanceMeters' - distanceMeters =
                PathLength(pointsRef') - PathLength(pointsRef)]_vars

\* C5 witness: a session resumed from a draft holding a point and a second
\* of elapsed time has accepted a further sample; its distance is the
\* restored one plus the new delta.
C5_Witness ==
    /\ sessionOrigin = "resume" /\ isTracking
    /\ draftStore # Null /\ draftStore.points # <<>>
    /\ draftStore.elapsedSec > 0 /\ elapsedSec = draftStore.elapsedSec
    /\ Len(pointsRef) = Len(draftStore.points) + 1
    /\ distanceMeters = draftStore.distanceMeters + Scale

\* C6: the draft slot is empty after discardSession, after finish() proceeds
\* and after discardDraft; while no session is Tracking nothing is written to
\* the slot, and whatever is written is a snapshot of the session Tracking now.
C6_DraftDeletedAtSessionEnd ==
    [][/\ (isTracking /\ ~isTracking' /\ ~Reload) => draftStore' = Null
       /\ handleDiscard => draftStore' = Null
       /\ ~isTracking => draftStore' \in {draftStore, Null}
       /\ (draftStore' # draftStore /\ draftStore' # Null) =>
            (isTracking /\ isTracking' /\ draftStore'.startedAt = toISOString(startedAt))]_vars

\* C6 witness: a session resumed from its draft has been finished, and the
\* slot is empty.
C6_Witness ==
    /\ sessionOrigin = "resume" /\ ~isTracking
    /\ finishScreen # Null /\ draftStore = Null

\* C7: a finish() that proceeds from Tracking, whatever the number of points
\* and the privacy flag, leads to the review: when the handler yields it has
\* opened the review, or it is awaiting its two lookups, the one state from
\* which FinishResume opens it.
C7_FinishReachesReview ==
    [][\A c \in BOOLEAN : (handleFinish(c) /\ ~isTracking') =>
            (finishScreen' # Null \/ finishTask'.pc = "await")]_vars

\* C8: finish() of a private session calls the geocoder zero times and opens
\* the review with the labels "Start" and "End"; finish() of a public session
\* looks up both endpoints, and each label is the lookup's result, or its own
\* placeholder when that lookup came back empty.
C8_PrivateNeverGeocodes ==
    [][/\ \A c \in BOOLEAN : (handleFinish(c) /\ ~isTracking' /\ isPrivate) =>
            /\ geocodeCalls' = geocodeCalls
            /\ finishTask'.pc # "await"
            /\ finishScreen' # Null
            /\ finishScreen'.startLabel = <<"Start">>
            /\ finishScreen'.endLabel = <<"End">>
       /\ \A c \in BOOLEAN :
            (handleFinish(c) /\ ~isTracking' /\ ~isPrivate /\ pointsRef # <<>>) =>
                (geocodeCalls' = geocodeCalls + 2 /\ finishTask'.pc = "await")
       /\ FinishResume =>
            /\ finishScreen'.startLabel =
                  (IF finishTask.sRes = <<>> THEN <<"Start">> ELSE finishTask.sRes)
            /\ finishScreen'.endLabel =
                  (IF finishTask.eRes = <<>> THEN <<"End">> ELSE finishTask.eRes)]_vars

\* C8 witness: a private session with points has been finished: its review
\* shows the two placeholders and no lookup has been made since the page
\* opened.
C8_Witness ==
    /\ isPrivate /\ finishScreen # Null /\ finishTask = NoTask
    /\ finishScreen.startLabel = <<"Start">> /\ finishScreen.endLabel = <<"End">>
    /\ finishScreen.points # <<>>
    /\ geocodeCalls = 0

\* C9: when the insight generator fails during commit() and the poster
\* renders, a Trip without insight is prepended to the archive.
C9_InsightFailureIsSoft ==
    [][FinalSaveResume(InsightFails, TRUE) =>
            /\ Len(trips') = Len(trips) + 1
            /\ trips'[1].aiInsight = InsightAbsent
            /\ SubSeq(trips', 2, Len(trips')) = trips]_vars

C11_FailedCommitKeepsReview ==
    [][/\ \A insight \in InsightOutcomes, posterOk \in BOOLEAN :
            (FinalSaveResume(insight, posterOk) /\ ~(insight # InsightFails /\ posterOk)) =>
                (UNCHANGED finishScreen /\ ~isSaving')
       /\ handleFinalSave => saveTask'.fs = finishScreen
       /\ \A insight \in {InsightText, InsightAbsent} : FinalSaveResume(insight, TRUE) =>
            /\ trips'[1].points = saveTask.fs.points
            /\ trips'[1].distanceMeters = saveTask.fs.dist
            /\ trips'[1].durationSec = saveTask.fs.time
            /\ trips'[1].startTime = saveTask.fs.startTimeStr
            /\ trips'[1].endTime = saveTask.fs.endTimeStr
            /\ trips'[1].startLabel = saveTask.fs.startLabel
            /\ trips'[1].endLabel = saveTask.fs.endLabel
       /\ (finishScreen # Null /\ finishScreen' = Null) =>
            \/ BackToRecording
            \/ Reload
            \/ \E insight \in {InsightText, InsightAbsent} : FinalSaveResume(insight, TRUE)]_vars

\* C11 witness: after a commit that failed, the retry has stored the Trip of
\* the same review, with its point.
C11_Witness ==
    /\ lastAlert = "Poster failed to generate, but trip is saved."
    /\ finishScreen = Null /\ activeTrip # Null
    /\ trips # <<>> /\ trips[1] = activeTrip
    /\ activeTrip.points # <<>>

\* the engine is in Reviewing: the summary is shown and no session is Tracking
Reviewing == finishScreen # Null /\ ~isTracking

\* C12: a commit() that succeeds from Reviewing puts the new Trip before the
\* trips the archive held, in their order; the Trip's distance, duration and
\* points are the copies finish() captured and its labels are those the review
\* showed when commit() was called; the review is cleared and the engine is
\* neither Tracking nor saving.
C12_CommitPrependsTrip ==
    [][/\ \A insight \in {InsightText, InsightAbsent} :
            (Reviewing /\ FinalSaveResume(insight, TRUE)) =>
                /\ Len(trips') = Len(trips) + 1
                /\ SubSeq(trips', 2, Len(trips')) = trips
                /\ trips'[1].distanceMeters = saveTask.fs.dist
                /\ trips'[1].durationSec = saveTask.fs.time
                /\ trips'[1].points = saveTask.fs.points
                /\ trips'[1].startLabel = saveTask.fs.startLabel
                /\ trips'[1].endLabel = saveTask.fs.endLabel
                /\ finishScreen' = Null /\ ~isTracking' /\ ~isSaving'
       /\ handleFinalSave =>
            /\ saveTask'.fs.dist = finishScreen.dist
            /\ saveTask'.fs.time = finishScreen.time
            /\ saveTask'.fs.points = finishScreen.points
            /\ saveTask'.fs.startLabel = finishScreen.startLabel
            /\ saveTask'.fs.endLabel = finishScreen.endLabel
       /\ \A c \in BOOLEAN : (handleFinish(c) /\ ~isTracking') =>
            /\ finishScreen' # Null =>
                  /\ finishScreen'.points = pointsRef
                  /\ finishScreen'.dist = distanceMeters
                  /\ finishScreen'.time = elapsedSec
            /\ finishTask'.pc = "await" =>
                  /\ finishTask'.snapPoints = pointsRef
                  /\ finishTask'.snapDist = distanceMeters
                  /\ finishTask'.snapTime = elapsedSec
       /\ FinishResume =>
            /\ finishScreen'.points = finishTask.snapPoints
            /\ finishScreen'.dist = finishTask.snapDist
            /\ finishScreen'.time = finishTask.snapTime
       /\ (finishScreen # Null /\ finishScreen' # Null) =>
            /\ finishScreen'.points = finishScreen.points
            /\ finishScreen'.dist = finishScreen.dist
            /\ finishScreen'.time = finishScreen.time]_vars

\* C12 witness: a review with a moved session and an edited start label has
\* been committed on top of an older trip, and the review is closed.
C12_Witness ==
    /\ Len(trips) = 2 /\ trips[2] = OldTrip
    /\ trips[1].startLabel = <<"Home">>
    /\ Len(trips[1].points) = 2 /\ trips[1].distanceMeters = Scale
    /\ finishScreen = Null /\ ~isTracking /\ ~isSaving

\* C13: the archive never holds more than 50 trips, neither in the engine's
\* state nor as persisted.
C13_ArchiveAtMostCap == Len(trips) <= ArchiveCap /\ Len(storedTrips) <= ArchiveCap

\* C14: regeneratePoster on the trip shown in the overlay leaves the archive's
\* length and order, every other trip, and every field of that trip but its
\* poster as they were, in the engine's state and as persisted; when the
\* render fails the archive is unchanged.
C14_RegenerateOnlyPoster ==
    [][\A posterOk \in BOOLEAN : forceRegenerate(posterOk) =>
            /\ Len(trips') = Len(trips)
            /\ \A i \in 1..Len(trips) :
                  IF trips[i].id = activeTrip.id
                  THEN trips'[i] = [trips[i] EXCEPT
                                       !.posterPngBase64 = trips'[i].posterPngBase64]
                  ELSE trips'[i] = trips[i]
            /\ Len(storedTrips') = Len(storedTrips)
            /\ \A i \in 1..Len(storedTrips) : storedTrips'[i] = trips'[i]
            /\ ~posterOk => UNCHANGED <<trips, storedTrips>>]_vars

\* C14 witness: a trip committed with its start label cleared has had its
\* poster drawn again, with the placeholder; the stored label is still empty
\* and the older trip follows it.
C14_Witness ==
    /\ activeTrip # Null /\ Len(trips) = 2
    /\ trips[1] = activeTrip /\ trips[2] = OldTrip
    /\ activeTrip.startLabel = <<>>
    /\ activeTrip.posterPngBase64[2] = <<"Start">>
    /\ storedTrips = trips

\* C15: resume() on a stored draft that is not a DraftTrip deletes it from the
\* Draft Store and leaves the engine Idle, with the banner gone and the
\* session state as it was.
C15_MalformedDraftIsAbsent ==
    [][(draftStore \in MalformedDrafts /\ handleResume) =>
            /\ draftStore' = Null
            /\ ~isTracking' /\ ~hasDraft'
            /\ watches' = {} /\ timers' = {}
            /\ UNCHANGED <<sessionVars, isPrivate, pointsRef, lastPointRef>>]_vars

\* C16: finish() on a session with fewer than 2 points, with the confirmation
\* declined, changes nothing: the session is still Tracking with its points,
\* distance, elapsed time, watch, tick and stored draft, and neither the
\* lookups nor the review are started.
C16_DeclinedFinishChangesNothing ==
    [][(Len(pointsRef) < 2 /\ handleFinish(FALSE)) => UNCHANGED vars]_vars

\* C16 witness: a Tracking session with one point, a second of elapsed time
\* and a stored draft, on which finish() can be pressed.
C16_Witness ==
    /\ isTracking /\ MainScreen /\ finishScreen = Null /\ ~isSaving
    /\ finishTask.pc # "await"
    /\ Len(pointsRef) = 1 /\ elapsedSec > 0
    /\ draftStore # Null /\ draftStore.points = pointsRef
    /\ watches # {} /\ timers # {}

\* C17: lookups of a finish() that arrive after a new session was started do
\* not open the review summary, so no reachable state has a session Tracking
\* while the review summary is open.
C17_NeverTrackingAndReviewing ==
    ~(isTracking /\ finishScreen # Null)

\* C18: when the review summary was dismissed while the collaborator calls of
\* a commit() were pending, their completion adds no Trip to the archive.
C18_DismissedCommitAddsNoTrip ==
    [][\A insight \in InsightOutcomes, posterOk \in BOOLEAN :
          (finishScreen = Null /\ FinalSaveResume(insight, posterOk)) =>
              /\ trips' = trips
              /\ storedTrips' = storedTrips]_vars

\* C19: at most one location watch and one elapsed tick are active, and only
\* while a session is Tracking, so every exit from Tracking releases both; and
\* a step of the running page between two states that are not Tracking keeps
\* elapsedSec, distanceMeters and the point sequence.
C19_WatchAndTickOwnedByTracking ==
    [][/\ Cardinality(watches') <= 1 /\ Cardinality(timers') <= 1
       /\ (~isTracking' => watches' = {} /\ timers' = {})
       /\ ((~isTracking /\ ~isTracking' /\ ~Reload) =>
               UNCHANGED <<elapsedSec, distanceMeters, pointsRef>>)]_vars

\* C20: a confirmed discard of a Tracking session leads to Idle, leaves the
\* archive as it was, deletes the draft and leaves no points, distance or
\* elapsed time of the discarded session in the session state; a declined
\* confirmation changes nothing.
C20_DiscardClearsSession ==
    [][/\ (isTracking /\ DiscardTrip(TRUE)) =>
              /\ ~isTracking' /\ finishScreen' = Null
              /\ watches' = {} /\ timers' = {}
              /\ trips' = trips /\ storedTrips' = storedTrips
              /\ draftStore' = Null
              /\ pointsRef' = <<>>
              /\ distanceMeters' = 0
              /\ elapsedSec' = 0
       /\ (isTracking /\ DiscardTrip(FALSE)) => UNCHANGED vars]_vars

C22_OfferImpliesStoredDraft ==
    (hasDraft /\ ~isTracking /\ finishScreen = Null) => draftStore # Null

\* C23: from finish() until commit() is pressed (while the lookups are pending
\* or the review is open) the privacy flag of the running page does not
\* change, so the flag stored in the Trip is the one finish() used to decide
\* whether to look the endpoints up.
C23_PrivacyFixedFromFinishToCommit ==
    [][((finishTask.pc = "await" \/ finishScreen # Null) /\ ~Reload) =>
            isPrivate' = isPrivate]_vars

====
